---- MODULE Spec2Model ----
(***************************************************************************)
(* DSP Latency Test (index.js): a paced sender, a reply handler and the    *)
(* statistics report, sharing reqStartTime, reqEndTime and three counters. *)
(* JavaScript runs one segment of code at a time: control passes between   *)
(* the sender and the "message" handler only at the sender's awaits.       *)
(* Every action below is one such segment, from the point where it is      *)
(* resumed up to its next await.                                           *)
(***************************************************************************)
EXTENDS Integers, Sequences, FiniteSets, Bags, TLC

VARIABLES
    MPS,            \* options.MPS
    test_duration,  \* options.test_duration, a rational <<num, den>> of seconds
    clock,          \* the monotonic clock process.hrtime() reads, <<sec, nsec>>
    pc,             \* the await senderThread is suspended in
    i,              \* loop variable of senderThread
    time0,          \* senderThread's time0
    lastSendTime,   \* senderThread's lastSendTime
    timer,          \* expiry of the pending setTimeout, or NoTimer
    wire,           \* frames given to senderSocket.send, in order
    closed,         \* senderSocket.close() was called
    served,         \* number of frames of wire the remote endpoint has taken
    inflight,       \* bag of the replies on their way to receiverSocket
    emitted,        \* number of replies the remote endpoint has produced
    slack,          \* how late the event loop of this run notices an event, in ns
    reqStartTime,   \* reqID -> hrtime
    reqEndTime,     \* reqID -> hrtime
    pendingCount,
    msgsSent,
    msgsReceived,
    sendClock,      \* history: reqID -> clock at the call of senderSocket.send
    report          \* what statsReport printed, or NoReport

vars == <<MPS, test_duration, clock, pc, i, time0, lastSendTime, timer, wire,
          closed, served, inflight, emitted, slack, reqStartTime,
          reqEndTime, pendingCount, msgsSent, msgsReceived, sendClock, report>>

----------------------------------------------------------------------------
(* Bounds of the model *)

MaxRate == 2        \* rates are 1..MaxRate messages per second
MaxReplies == 2     \* replies the remote endpoint produces in one run
UnknownId == 9      \* an id no request of the run carries
ExecNs == 1000      \* time one segment of code takes before it reads the clock
SlackNs == 400000   \* the slack of a slow event loop
MaxSample == 6      \* requests of a run that is taken up at its last drain poll

Rates == 1..MaxRate
Durations == {<<1, 4>>, <<3, 4>>, <<1, 1>>}
ReplyIds == {1, 2, UnknownId}
ReplyDelays == {<<0, 0>>, <<0, 250000000>>}
StartClocks == {<<0, 0>>, <<7, 999998500>>}
Slacks == {0, SlackNs}
Domains == {"a.example"}
IPs == {"10.0.0.1"}
NoTimer == <<-1, 0>>
NoTime == <<-1, 0>>

----------------------------------------------------------------------------
(* Program constants *)

UsecPerSec == 1000000
NsecPerUsec == 1000
UsecPerMsec == 1000
NsecPerMsec == 1000000
NsecPerSec == 1000000000
DrainTimeoutUsec == 10 * 1000000
DrainPollUsec == 100000
Percentiles == <<1000, 999, 990, 900>>   \* 1, .999, .99, .90 in thousandths

----------------------------------------------------------------------------
(* Time *)

Norm(sec, nsec) == <<sec + (nsec \div NsecPerSec), nsec % NsecPerSec>>
AddNs(t, ns) == Norm(t[1], t[2] + ns)
AddTime(t, d) == Norm(t[1] + d[1], t[2] + d[2])
AddMs(t, ms) == Norm(t[1] + (ms \div 1000), t[2] + (ms % 1000) * NsecPerMsec)
TimeLE(a, b) == a[1] < b[1] \/ (a[1] = b[1] /\ a[2] <= b[2])
TimeLT(a, b) == a[1] < b[1] \/ (a[1] = b[1] /\ a[2] < b[2])

\* uTimeDiff that drops the fraction of the microseconds towards zero
uTimeDiff_Trunc(t0, t1) ==
    (t1[1] - t0[1]) * UsecPerSec +
        (IF t1[2] >= t0[2] THEN (t1[2] - t0[2]) \div NsecPerUsec
                           ELSE -((t0[2] - t1[2]) \div NsecPerUsec))

uTimeDiff(t0, t1) ==
    (t1[1] - t0[1]) * UsecPerSec + ((t1[2] - t0[2]) \div NsecPerUsec)

\* uSleep that takes the microseconds for nanoseconds
uSleep_WrongGrain(now, usec) == AddMs(now, usec \div (UsecPerMsec * 1000))

\* uSleep(usec): setTimeout(resolve, Math.floor(usec / 1000)) set at `now`
uSleep(now, usec) == AddMs(now, usec \div UsecPerMsec)

----------------------------------------------------------------------------
(* Wire encoding *)

encUInt32(n) ==
    << (n \div 16777216) % 256, (n \div 65536) % 256, (n \div 256) % 256, n % 256 >>

readUInt32BE(buf) ==
    buf[1] * 16777216 + buf[2] * 65536 + buf[3] * 256 + buf[4]

----------------------------------------------------------------------------
(* statsReport *)

RECURSIVE Insert(_, _)
Insert(x, s) ==
    IF s = <<>> THEN <<x>>
    ELSE IF x <= Head(s) THEN <<x>> \o s
    ELSE <<Head(s)>> \o Insert(x, Tail(s))

\* the latencies are left in the order they were collected in
SortNumeric_None(s) == s

\* latencies.sort((a, b) => a - b)
RECURSIVE SortNumeric(_)
SortNumeric(s) == IF s = <<>> THEN <<>> ELSE Insert(Head(s), SortNumeric(Tail(s)))

\* the loop without the test of reqEndTime[reqID]: a request with no reply
\* enters with its start time for its end time
RECURSIVE CollectLatencies_NoTest(_, _, _)
CollectLatencies_NoTest(ids, st, en) ==
    IF ids = {} THEN <<>>
    ELSE LET id == CHOOSE x \in ids : \A y \in ids : x <= y IN
         <<uTimeDiff(st[id], IF id \in DOMAIN en THEN en[id] ELSE st[id])>>
            \o CollectLatencies_NoTest(ids \ {id}, st, en)

\* for (let reqID in reqStartTime) if (reqEndTime[reqID] !== undefined) push:
\* integer keys of an object are enumerated in ascending order
RECURSIVE CollectLatencies(_, _, _)
CollectLatencies(ids, st, en) ==
    IF ids = {} THEN <<>>
    ELSE LET id == CHOOSE x \in ids : \A y \in ids : x <= y IN
         (IF id \in DOMAIN en THEN <<uTimeDiff(st[id], en[id])>> ELSE <<>>)
            \o CollectLatencies(ids \ {id}, st, en)

\* Math.round(perc * n), perc in thousandths: the nearest integer, ties upwards
RoundPerc(perc, n) == (2 * perc * n + 1000) \div 2000

\* the index with Math.floor for Math.round
PercIndex_Floor(perc, n) == ((perc * n) \div 1000) - 1

\* the index without the - 1
PercIndex_NoMinusOne(perc, n) == RoundPerc(perc, n)

\* the index latPercMs reads: Math.round(perc * latencies.length) - 1 (0-based)
PercIndex(perc, n) == RoundPerc(perc, n) - 1

NaN == <<"NaN">>

\* latencies[index] / 1000: a number of milliseconds <<usec, 1000>>, or NaN
\* when the index is outside the array (undefined / 1000)
latPercMs(perc, latencies) ==
    LET idx == PercIndex(perc, Len(latencies)) IN
    IF 0 <= idx /\ idx < Len(latencies)
    THEN <<latencies[idx + 1], UsecPerMsec>>
    ELSE NaN

NoReport == [printed |-> FALSE]

\* what lines 205 and 104-127 print; reads are the indexes latPercMs reads at
statsReport(duration, st, en, snt, rcv) ==
    LET latencies == SortNumeric(CollectLatencies(DOMAIN st, st, en)) IN
    [ printed   |-> TRUE,
      duration  |-> duration,
      sent      |-> snt,
      received  |-> rcv,
      latencies |-> latencies,
      reads     |-> [k \in 1..4 |-> PercIndex(Percentiles[k], Len(latencies))],
      percs     |-> [k \in 1..4 |-> latPercMs(Percentiles[k], latencies)] ]

----------------------------------------------------------------------------
(* State after the sockets are bound and the lists are read (line 158) *)

Init ==
    /\ MPS \in Rates
    /\ test_duration \in Durations
    /\ clock \in StartClocks
    /\ pc = "start"
    /\ i = 0
    /\ time0 = NoTime
    /\ lastSendTime = NoTime
    /\ timer = NoTimer
    /\ wire = <<>>
    /\ closed = FALSE
    /\ served = 0
    /\ inflight = EmptyBag
    /\ emitted = 0
    /\ slack \in Slacks
    /\ reqStartTime = <<>>
    /\ reqEndTime = <<>>
    /\ pendingCount = 0
    /\ msgsSent = 0
    /\ msgsReceived = 0
    /\ sendClock = <<>>
    /\ report = NoReport

----------------------------------------------------------------------------
(* senderThread *)

\* the loop test with <= for <
LoopCond_Inclusive(k) == k * test_duration[2] <= test_duration[1] * MPS

\* i < msgs, with msgs = options.test_duration * options.MPS (line 57)
LoopCond(k) == k * test_duration[2] < test_duration[1] * MPS

\* time that we have to spend (line 168)
uTimeReqd(k) == (k * UsecPerSec) \div MPS

\* the frame carries the loop index, not the index plus one
SendCall_ZeroBased(now, k) ==
    \E d \in Domains, ip \in IPs :
        /\ wire' = Append(wire, <<encUInt32(k), d, ip>>)
        /\ sendClock' = sendClock @@ ((k + 1) :> now)
        /\ pc' = "sending"
        /\ timer' = NoTimer
        /\ closed' = closed

\* lines 176-186: build the frame of request k + 1 and hand it to the socket
SendCall(now, k) ==
    \E d \in Domains, ip \in IPs :
        /\ wire' = Append(wire, <<encUInt32(k + 1), d, ip>>)
        /\ sendClock' = sendClock @@ ((k + 1) :> now)
        /\ pc' = "sending"
        /\ timer' = NoTimer
        /\ closed' = closed

\* lines 161-194 from the loop test of iteration k up to the next await
LoopBody(now, t0, k) ==
    IF LoopCond(k)
    THEN IF uTimeReqd(k) > uTimeDiff(t0, now)
         THEN /\ pc' = "pacing"
              /\ timer' = uSleep(now, uTimeReqd(k) - uTimeDiff(t0, now))
              /\ UNCHANGED <<wire, sendClock, closed>>
         ELSE SendCall(now, k)
    ELSE /\ pc' = "closing"
         /\ closed' = TRUE
         /\ timer' = NoTimer
         /\ UNCHANGED <<wire, sendClock>>

\* the drain loop gives up while one reply is still outstanding
DrainCond_OffByOne(now, last, pending) ==
    uTimeDiff(last, now) < DrainTimeoutUsec /\ pending > 1

\* the test of the drain loop (line 201)
DrainCond(now, last, pending) ==
    uTimeDiff(last, now) < DrainTimeoutUsec /\ pending > 0

\* the report is printed at every poll of the drain loop
DrainBody_ReportEachPoll(now, last, pending) ==
    /\ report' = statsReport(uTimeDiff(time0, now), reqStartTime, reqEndTime,
                            msgsSent, msgsReceived)
    /\ IF DrainCond(now, last, pending)
       THEN pc' = "draining" /\ timer' = uSleep(now, DrainPollUsec)
       ELSE pc' = "done" /\ timer' = NoTimer

\* lines 199-207 from the loop test of the drain loop up to the next await
DrainBody(now, last, pending) ==
    IF DrainCond(now, last, pending)
    THEN /\ pc' = "draining"
         /\ timer' = uSleep(now, DrainPollUsec)
         /\ report' = report
    ELSE /\ pc' = "done"
         /\ timer' = NoTimer
         /\ report' = statsReport(uTimeDiff(time0, now), reqStartTime, reqEndTime,
                                 msgsSent, msgsReceived)

\* the start time is kept under the loop index, not under the request id
RecordSend_LoopIndex(now, reqID) ==
    /\ reqStartTime' = [id \in (DOMAIN reqStartTime) \cup {reqID - 1} |->
                            IF id = reqID - 1 THEN now ELSE reqStartTime[id]]
    /\ msgsSent' = msgsSent + 1
    /\ pendingCount' = pendingCount + 1

\* lines 189-191: save request start time, count the message
RecordSend(now, reqID) ==
    /\ reqStartTime' = [id \in (DOMAIN reqStartTime) \cup {reqID} |->
                            IF id = reqID THEN now ELSE reqStartTime[id]]
    /\ msgsSent' = msgsSent + 1
    /\ pendingCount' = pendingCount + 1

\* line 159, then the first iteration
Start ==
    /\ pc = "start"
    /\ clock' = AddNs(clock, ExecNs)
    /\ time0' = clock'
    /\ i' = 0
    /\ LoopBody(clock', clock', 0)
    /\ UNCHANGED <<MPS, test_duration, lastSendTime, served, inflight, emitted,
                   slack, reqStartTime, reqEndTime, pendingCount, msgsSent,
                   msgsReceived, report>>

\* await uSleep(...) of line 173 resumes: the send of iteration i
PaceWake ==
    /\ pc = "pacing"
    /\ TimeLE(timer, clock)
    /\ clock' = AddNs(clock, ExecNs)
    /\ SendCall(clock', i)
    /\ UNCHANGED <<MPS, test_duration, i, time0, lastSendTime, served, inflight,
                   emitted, slack, reqStartTime, reqEndTime, pendingCount,
                   msgsSent, msgsReceived, report>>

\* await senderSocket.send(msg) of line 186 resumes: lines 189-191, then the
\* next iteration
SendDone ==
    /\ pc = "sending"
    /\ clock' = AddNs(clock, ExecNs)
    /\ RecordSend(clock', i + 1)
    /\ i' = i + 1
    /\ LoopBody(clock', time0, i + 1)
    /\ UNCHANGED <<MPS, test_duration, time0, lastSendTime, served, inflight,
                   emitted, slack, reqEndTime, msgsReceived, report>>

\* await senderSocket.close() of line 194 resumes: lines 199-207
CloseDone ==
    /\ pc = "closing"
    /\ clock' = AddNs(clock, ExecNs)
    /\ lastSendTime' = clock'
    /\ DrainBody(clock', clock', pendingCount)
    /\ UNCHANGED <<MPS, test_duration, i, time0, wire, closed, served, inflight,
                   emitted, slack, reqStartTime, reqEndTime, pendingCount,
                   msgsSent, msgsReceived, sendClock>>

\* await uSleep(100_000) of line 202 resumes
DrainWake ==
    /\ pc = "draining"
    /\ TimeLE(timer, clock)
    /\ clock' = AddNs(clock, ExecNs)
    /\ DrainBody(clock', lastSendTime, pendingCount)
    /\ UNCHANGED <<MPS, test_duration, i, time0, lastSendTime, wire, closed,
                   served, inflight, emitted, slack, reqStartTime,
                   reqEndTime, pendingCount, msgsSent, msgsReceived, sendClock>>

----------------------------------------------------------------------------
(* receiverThread: the "message" handler, lines 224-233 *)

\* the handler counts the reply but leaves pendingCount alone
RecordReply_NoDecrement(now, reqID) ==
    /\ reqEndTime' = [id \in (DOMAIN reqEndTime) \cup {reqID} |->
                          IF id = reqID THEN now ELSE reqEndTime[id]]
    /\ msgsReceived' = msgsReceived + 1
    /\ pendingCount' = pendingCount

\* lines 230-232: save reply time, count the reply
RecordReply(now, reqID) ==
    /\ reqEndTime' = [id \in (DOMAIN reqEndTime) \cup {reqID} |->
                          IF id = reqID THEN now ELSE reqEndTime[id]]
    /\ msgsReceived' = msgsReceived + 1
    /\ pendingCount' = pendingCount - 1

Arrived == {r \in BagToSet(inflight) : TimeLE(r.due, clock)}

\* a sleep that keeps the event loop busy: no handler runs during uSleep
OnMessage_Blocked(r) ==
    /\ r \in Arrived
    /\ pc \notin {"start", "pacing", "draining"}
    /\ clock' = AddNs(clock, ExecNs)
    /\ inflight' = inflight (-) SetToBag({r})
    /\ RecordReply(clock', readUInt32BE(r.raw))
    /\ UNCHANGED <<MPS, test_duration, pc, i, time0, lastSendTime, timer, wire,
                   closed, served, emitted, slack, reqStartTime, msgsSent,
                   sendClock, report>>

OnMessage(r) ==
    /\ r \in Arrived
    /\ pc # "start"
    /\ clock' = AddNs(clock, ExecNs)
    /\ inflight' = inflight (-) SetToBag({r})
    /\ RecordReply(clock', readUInt32BE(r.raw))
    /\ UNCHANGED <<MPS, test_duration, pc, i, time0, lastSendTime, timer, wire,
                   closed, served, emitted, slack, reqStartTime, msgsSent,
                   sendClock, report>>

----------------------------------------------------------------------------
(* The environment: the remote endpoint and the passing of time *)

\* the remote endpoint answers the frame it is serving with a reply that
\* carries id rid and reaches receiverSocket d later
RemoteReply(rid, d) ==
    /\ served < Len(wire)
    /\ emitted < MaxReplies
    /\ emitted' = emitted + 1
    /\ inflight' = inflight (+)
          SetToBag({[raw |-> encUInt32(rid), due |-> AddTime(clock, d)]})
    /\ UNCHANGED <<MPS, test_duration, clock, pc, i, time0, lastSendTime, timer,
                   wire, closed, served, slack, reqStartTime, reqEndTime,
                   pendingCount, msgsSent, msgsReceived, sendClock, report>>

\* the remote endpoint is through with the frame it is serving
RemoteDone ==
    /\ served < Len(wire)
    /\ served' = served + 1
    /\ UNCHANGED <<MPS, test_duration, clock, pc, i, time0, lastSendTime, timer,
                   wire, closed, inflight, emitted, slack, reqStartTime,
                   reqEndTime, pendingCount, msgsSent, msgsReceived, sendClock,
                   report>>

Sleeping == pc \in {"pacing", "draining"}

\* the times at which something is due to happen
Events == (IF Sleeping THEN {timer} ELSE {}) \cup {r.due : r \in BagToSet(inflight)}

\* nothing can run now: the clock runs on to the next event, which the event
\* loop notices slack later
Advance ==
    /\ Sleeping \/ pc = "done"
    /\ served = Len(wire)
    /\ Events # {}
    /\ \A e \in Events : TimeLT(clock, e)
    /\ LET next == CHOOSE e \in Events : \A f \in Events : TimeLE(e, f) IN
       clock' = AddNs(next, slack)
    /\ UNCHANGED <<MPS, test_duration, pc, i, time0, lastSendTime, timer, wire,
                   closed, served, inflight, emitted, slack, reqStartTime,
                   reqEndTime, pendingCount, msgsSent, msgsReceived, sendClock,
                   report>>

----------------------------------------------------------------------------

Next ==
    \/ Start
    \/ PaceWake
    \/ SendDone
    \/ CloseDone
    \/ DrainWake
    \/ \E r \in BagToSet(inflight) : OnMessage(r)
    \/ \E rid \in ReplyIds, d \in ReplyDelays : RemoteReply(rid, d)
    \/ RemoteDone
    \/ Advance

Spec == Init /\ [][Next]_vars

----------------------------------------------------------------------------
(* Runs taken up at the last poll of the drain loop: n requests were sent at *)
(* n per second for one second, each got no reply or one reply, a reply for  *)
(* an id that was never sent may have come, and the drain window is over.    *)

\* round-trip times of the replies, in ns; negative when the reply was handled
\* before line 189 ran
StatLatenciesNs == <<-1500, 250000250, 1000000999>>
StatTime0 == <<0, 1000>>
StatClose == <<2, 500000000>>
StatClock == <<12, 500000000>>

\* the time line 189 ran for request id of n
StatStart(id, n) ==
    LET reqd == ((id - 1) * UsecPerSec) \div n IN
    AddNs(AddMs(StatTime0, reqd \div UsecPerMsec),
          (reqd % UsecPerMsec) * NsecPerUsec + 2 * ExecNs * id)

StatInit ==
    \E n \in 0..MaxSample, unknown \in BOOLEAN :
    \E f \in [1..n -> 0..Len(StatLatenciesNs)] :
        /\ MPS = IF n = 0 THEN 1 ELSE n
        /\ test_duration = IF n = 0 THEN <<0, 1>> ELSE <<1, 1>>
        /\ clock = StatClock
        /\ pc = "draining"
        /\ i = n
        /\ time0 = StatTime0
        /\ lastSendTime = StatClose
        /\ timer = StatClock
        /\ wire = [k \in 1..n |-> <<encUInt32(k), CHOOSE d \in Domains : TRUE,
                                    CHOOSE ip \in IPs : TRUE>>]
        /\ closed = TRUE
        /\ served = n
        /\ inflight = EmptyBag
        /\ slack = 0
        /\ reqStartTime = [id \in 1..n |-> StatStart(id, n)]
        /\ reqEndTime =
              [id \in {k \in 1..n : f[k] # 0} \cup (IF unknown THEN {UnknownId} ELSE {}) |->
                  IF id \in 1..n
                  THEN AddNs(StatStart(id, n), StatLatenciesNs[f[id]])
                  ELSE StatClose]
        /\ msgsSent = n
        /\ msgsReceived = Cardinality(DOMAIN reqEndTime)
        /\ emitted = msgsReceived
        /\ pendingCount = msgsSent - msgsReceived
        /\ sendClock = [id \in 1..n |-> AddNs(StatStart(id, n), -ExecNs)]
        /\ report = NoReport

StatNext == DrainWake

StatSpec == StatInit /\ [][StatNext]_vars

----------------------------------------------------------------------------
(* Properties *)

\* Math.round(rate * duration) and the least integer >= rate * duration
RoundMsgs == (2 * test_duration[1] * MPS + test_duration[2]) \div (2 * test_duration[2])
CeilMsgs == (test_duration[1] * MPS + test_duration[2] - 1) \div test_duration[2]

SendPhaseOver == pc \in {"closing", "draining", "done"}

\* the time the drain loop had run and the value of pendingCount when the
\* report was printed
DrainElapsed == report.duration - uTimeDiff(time0, lastSendTime)
PendingAtReport == report.sent - report.received

\* C1: the pending counter is never negative.
C1_PendingNonNegative == pendingCount >= 0

\* C2: between any two segments of code, pending = sent - received.
C2_PendingIsSentMinusReceived == pendingCount = msgsSent - msgsReceived

C2_Witness ==
    /\ msgsSent >= 2
    /\ msgsReceived >= 1
    /\ pc = "draining"
    /\ pendingCount = msgsSent - msgsReceived

\* C3: every id with an end time has a start time.
C3_EndOnlyAfterStart == DOMAIN reqEndTime \subseteq DOMAIN reqStartTime

\* C4: every latency that enters the statistics is >= 0.
C4_LatencyNonNegative ==
    report.printed => \A k \in 1..Len(report.latencies) : report.latencies[k] >= 0

\* C5 as stated: sent never exceeds round(rate * duration) and equals it once
\* the send phase is over.
C5_SentIsRound ==
    /\ msgsSent <= RoundMsgs
    /\ SendPhaseOver => msgsSent = RoundMsgs

\* C5 as amended: sent never exceeds the least integer >= rate * duration and
\* equals it once the send phase is over.
C5_SentIsCeil ==
    /\ msgsSent <= CeilMsgs
    /\ SendPhaseOver => msgsSent = CeilMsgs

C5_Witness ==
    /\ SendPhaseOver
    /\ RoundMsgs * test_duration[2] # test_duration[1] * MPS
    /\ msgsSent = CeilMsgs
    /\ msgsSent >= 1

\* C6: the ids on the outbound channel are 1, 2, ..., in this order, each
\* once, and all of them are there when the channel is closed.
C6_IdsInOrder ==
    /\ \A k \in 1..Len(wire) : readUInt32BE(wire[k][1]) = k
    /\ closed => Len(wire) = msgsSent /\ Len(wire) = CeilMsgs
    /\ pc = "sending" => Len(wire) = msgsSent + 1
    /\ pc \in {"start", "pacing"} => Len(wire) = msgsSent

C6_Witness ==
    /\ closed
    /\ Len(wire) >= 2
    /\ msgsReceived >= 1

\* C7: request i is handed to the socket no earlier than one millisecond
\* before floor(i * 1000000 / rate) microseconds after time0.
C7_NotEarly ==
    \A id \in DOMAIN sendClock :
        uTimeDiff(time0, sendClock[id]) >= uTimeReqd(id - 1) - UsecPerMsec

\* a request that went out before its scheduled offset, within the tolerance
C7_Witness ==
    \E id \in DOMAIN sendClock :
        /\ id >= 2
        /\ uTimeDiff(time0, sendClock[id]) < uTimeReqd(id - 1)
        /\ uTimeDiff(time0, sendClock[id]) >= uTimeReqd(id - 1) - UsecPerMsec

\* C8: the drain loop is left at a poll at which pending = 0 or 10 seconds
\* have passed since the close, and no later than one poll after 10 seconds.
C8_DrainExit ==
    report.printed =>
        /\ PendingAtReport = 0 \/ DrainElapsed >= DrainTimeoutUsec
        /\ DrainElapsed <= DrainTimeoutUsec + DrainPollUsec

\* C9: with no reply delivered, the report is printed after the whole drain
\* window, pending is what was sent, received is 0 and no latency is there.
C9_NoReplyReport ==
    (report.printed /\ msgsReceived = 0) =>
        /\ pendingCount = msgsSent
        /\ report.sent = msgsSent
        /\ report.received = 0
        /\ report.latencies = <<>>
        /\ msgsSent > 0 => DrainElapsed >= DrainTimeoutUsec

C9_Witness ==
    /\ report.printed
    /\ msgsReceived = 0
    /\ msgsSent >= 2
    /\ pendingCount = msgsSent
    /\ DrainElapsed >= DrainTimeoutUsec

\* C10: over zero latencies no index outside the array is read and every
\* percentile is a defined result.
C10_EmptyNoData ==
    (report.printed /\ report.latencies = <<>>) =>
        \A k \in 1..4 : report.reads[k] >= 0 /\ report.percs[k] # NaN

----------------------------------------------------------------------------
(* Properties of the report, checked under StatSpec *)

\* the ids with both timestamps and their latencies in microseconds, from
\* the whole nanoseconds of the two timestamps
Completed == DOMAIN reqStartTime \cap DOMAIN reqEndTime
TotalNs(t) == t[1] * NsecPerSec + t[2]
LatencyOf(id) == (TotalNs(reqEndTime[id]) - TotalNs(reqStartTime[id])) \div NsecPerUsec

\* C11: over a non-empty sample P(0.90) <= P(0.99) <= P(0.999) <= P(1.0) and
\* P(1.0) is the greatest latency of the sample.
C11_PercentileOrder ==
    (report.printed /\ Completed # {}) =>
        /\ \A k \in 1..4 : report.percs[k] # NaN
        /\ report.percs[4][1] <= report.percs[3][1]
        /\ report.percs[3][1] <= report.percs[2][1]
        /\ report.percs[2][1] <= report.percs[1][1]
        /\ \A id \in Completed : LatencyOf(id) <= report.percs[1][1]
        /\ \E id \in Completed : LatencyOf(id) = report.percs[1][1]

\* a sample collected out of order whose P(0.90) is below its maximum
C11_Witness ==
    /\ report.printed
    /\ Cardinality(Completed) >= 6
    /\ report.percs[4][1] < report.percs[1][1]
    /\ \E a, b \in Completed : a < b /\ LatencyOf(a) > LatencyOf(b)

\* C12: with exactly one completed id, of latency L, the four percentiles
\* are all L / 1000 ms, however many requests are still pending.
C12_SingleSample ==
    (report.printed /\ Cardinality(Completed) = 1) =>
        \A id \in Completed : \A k \in 1..4 :
            report.percs[k] = <<LatencyOf(id), UsecPerMsec>>

C12_Witness ==
    /\ report.printed
    /\ Cardinality(Completed) = 1
    /\ pendingCount >= 2
    /\ \A k \in 1..4 : report.percs[k] # NaN

\* C14: for n >= 1 each of the four indexes read is within 0..n-1, so each
\* percentile is an element of the sample.
C14_IndexInRange ==
    (report.printed /\ Len(report.latencies) >= 1) =>
        \A k \in 1..4 :
            /\ report.reads[k] \in 0..(Len(report.latencies) - 1)
            /\ \E id \in Completed : report.percs[k] = <<LatencyOf(id), UsecPerMsec>>

C14_Witness ==
    /\ report.printed
    /\ Len(report.latencies) >= 6
    /\ report.reads[4] < report.reads[1]
    /\ report.reads[1] = Len(report.latencies) - 1

\* C15: the sample holds one entry for each id with both timestamps and
\* nothing else; it is no larger than sent.
C15_SampleIsCompleted ==
    report.printed =>
        /\ Len(report.latencies) = Cardinality(Completed)
        /\ Len(report.latencies) <= report.sent
        /\ \A id \in Completed :
              Cardinality({k \in 1..Len(report.latencies) :
                              report.latencies[k] = LatencyOf(id)})
                = Cardinality({j \in Completed : LatencyOf(j) = LatencyOf(id)})

\* completed ids, pending ids and a reply for an id that was never sent
C15_Witness ==
    /\ report.printed
    /\ Cardinality(Completed) >= 2
    /\ Cardinality(DOMAIN reqStartTime \ DOMAIN reqEndTime) >= 2
    /\ UnknownId \in DOMAIN reqEndTime
    /\ Len(report.latencies) = Cardinality(Completed)

\* C19: uTimeDiff(t0, t1) is the floor of the difference of the whole
\* nanoseconds by 1000, and it is >= 0 when t1 is not earlier than t0.
C19_DiffIsFloor ==
    report.printed =>
        \A id \in Completed :
            /\ uTimeDiff(reqStartTime[id], reqEndTime[id]) = LatencyOf(id)
            /\ \E k \in 1..Len(report.latencies) : report.latencies[k] = LatencyOf(id)
            /\ TimeLE(reqStartTime[id], reqEndTime[id]) =>
                  uTimeDiff(reqStartTime[id], reqEndTime[id]) >= 0

\* a later end time with the smaller nanosecond part, and an earlier end time
C19_Witness ==
    /\ report.printed
    /\ \E id \in Completed :
          /\ reqEndTime[id][1] > reqStartTime[id][1]
          /\ reqEndTime[id][2] < reqStartTime[id][2]
          /\ (reqEndTime[id][2] - reqStartTime[id][2]) % NsecPerUsec # 0
    /\ \E id \in Completed : TimeLT(reqEndTime[id], reqStartTime[id])

----------------------------------------------------------------------------
(* Properties of the run, checked under Spec *)

\* C13: every handled reply adds exactly 1 to received, and a reply for an
\* id with no start time leaves reqStartTime and reqEndTime as they were.
C13_UnknownReplyIsNoOp ==
    [][\A r \in BagToSet(inflight) :
          OnMessage(r) =>
            /\ msgsReceived' = msgsReceived + 1
            /\ readUInt32BE(r.raw) \notin DOMAIN reqStartTime =>
                  reqEndTime' = reqEndTime /\ reqStartTime' = reqStartTime]_vars

\* C16: once an id has both timestamps, no step changes either of them.
C16_CompletedIsTerminal ==
    [][\A id \in Completed :
          /\ reqEndTime'[id] = reqEndTime[id]
          /\ reqStartTime'[id] = reqStartTime[id]]_vars

Suspended == pc \in {"pacing", "sending", "closing", "draining"}

C18_PhaseOrder ==
    /\ [](closed => Len(wire) = CeilMsgs /\ msgsSent = CeilMsgs)
    /\ [](pc \in {"draining", "done"} => closed /\ lastSendTime # NoTime)
    /\ [](report.printed <=> pc = "done")
    /\ [][closed => closed' /\ wire' = wire /\ msgsSent' = msgsSent]_vars
    /\ [][report.printed => report' = report]_vars
    /\ [][pc = "draining" => pc' \in {"draining", "done"}]_vars
    /\ [][pc = "done" => pc' = "done"]_vars

\* a report that stayed as printed while a reply came in after it
C18_Witness ==
    /\ report.printed
    /\ report.sent >= 1
    /\ msgsReceived > report.received

\* C20: the ids with a start time are 1..sent; a start time is written after
\* the send of its id, together with the two increments, and stays.
C20_StartTimes ==
    /\ [](DOMAIN reqStartTime = 1..msgsSent)
    /\ [](\A id \in DOMAIN reqStartTime :
             id <= Len(wire) /\ TimeLT(sendClock[id], reqStartTime[id]))
    /\ [][reqStartTime' # reqStartTime =>
             msgsSent' = msgsSent + 1 /\ pendingCount' = pendingCount + 1]_vars
    /\ [][msgsSent' # msgsSent => DOMAIN reqStartTime' = 1..(msgsSent + 1)]_vars
    /\ [][\A id \in DOMAIN reqStartTime :
             id \in DOMAIN reqStartTime' /\ reqStartTime'[id] = reqStartTime[id]]_vars

C20_Witness ==
    /\ DOMAIN reqStartTime = 1..2
    /\ msgsSent = 2
    /\ msgsReceived >= 1
    /\ pc = "done"

====
